---------------------------- MODULE Spec2Model ----------------------------
(***************************************************************************)
(* A model of mcp-starter/mcp-bearer-token/mcp_starter.py: the trivia tool *)
(* and its process-wide session mapping, the job_finder tool, and the two  *)
(* network helpers of class Fetch (fetch_url and google_search_links).     *)
(*                                                                         *)
(* Text is a sequence of one-character strings, so that strip, lower,      *)
(* the regular expression of the trivia tool and Python's "in" on strings  *)
(* are computed character by character.                                    *)
(***************************************************************************)
EXTENDS Integers, Sequences, FiniteSets, Bags

\* How many tool invocations the RPC framework may hold in flight at once.
MaxInflight == 2

---------------------------------------------------------------------------
(* Python's str methods, as the handlers use them *)

Min(S) == CHOOSE x \in S : \A y \in S : x <= y
Max(S) == CHOOSE x \in S : \A y \in S : x >= y

UpperCase ==
    <<"A", "B", "C", "D", "E", "F", "G", "H", "I", "J", "K", "L", "M",
      "N", "O", "P", "Q", "R", "S", "T", "U", "V", "W", "X", "Y", "Z">>
LowerCase ==
    <<"a", "b", "c", "d", "e", "f", "g", "h", "i", "j", "k", "l", "m",
      "n", "o", "p", "q", "r", "s", "t", "u", "v", "w", "x", "y", "z">>

\* The case mappings, as functions of the letters they change.
ToLower ==
    [c \in {UpperCase[i] : i \in 1..Len(UpperCase)} |->
        LowerCase[CHOOSE i \in 1..Len(UpperCase) : UpperCase[i] = c]]
ToUpper ==
    [c \in {LowerCase[i] : i \in 1..Len(LowerCase)} |->
        UpperCase[CHOOSE i \in 1..Len(LowerCase) : LowerCase[i] = c]]

Translate(c, map) == IF c \in DOMAIN map THEN map[c] ELSE c

\* str.lower() and str.upper()
lower(s) == [i \in 1..Len(s) |-> Translate(s[i], ToLower)]
upper(s) == [i \in 1..Len(s) |-> Translate(s[i], ToUpper)]

Whitespace == {" ", "\t", "\n", "\r", "\f"}

\* str.strip(): leading and trailing whitespace removed
strip(s) ==
    LET keep == {i \in 1..Len(s) : s[i] \notin Whitespace}
    IN  IF keep = {} THEN <<>> ELSE SubSeq(s, Min(keep), Max(keep))

\* str.startswith(p)
StartsWith(s, p) == Len(s) >= Len(p) /\ SubSeq(s, 1, Len(p)) = p

\* Python's  p in s  on strings
Contains(s, p) ==
    \E i \in 0..(Len(s) - Len(p)) : SubSeq(s, i + 1, i + Len(p)) = p

---------------------------------------------------------------------------
(* The trivia tool: constants *)

\* TRIVIA_QUESTIONS: the correct answer of each question, in order.
TRIVIA_QUESTIONS ==
    << [q |-> "capital of France", answer |-> "A"],
       [q |-> "who wrote 1984",    answer |-> "A"],
       [q |-> "7 * 8",             answer |-> "B"] >>

\* len(TRIVIA_QUESTIONS)
NumQuestions == Len(TRIVIA_QUESTIONS)

\* session_id = "default_session": every caller shares this one key.
session_id == "default_session"
SessionIds == {session_id}

TRIVIA_START ==
    <<"t", "r", "i", "v", "i", "a", " ", "s", "t", "a", "r", "t">>
TRIVIA_ANSWER ==
    <<"t", "r", "i", "v", "i", "a", " ", "a", "n", "s", "w", "e", "r", " ">>

\* re.match(r"trivia answer ([abc])", command): the pattern is anchored at the
\* start of the string only; group(1) is returned, or <<>> for no match.
re_match(command) ==
    IF /\ StartsWith(command, TRIVIA_ANSWER)
       /\ Len(command) > Len(TRIVIA_ANSWER)
       /\ command[Len(TRIVIA_ANSWER) + 1] \in {"a", "b", "c"}
    THEN <<command[Len(TRIVIA_ANSWER) + 1]>>
    ELSE <<>>

\* The commands callers send (raw text, before strip and lower).
Commands ==
    { <<"T", "r", "i", "v", "i", "a", " ", "S", "T", "A", "R", "T", " ">>,
      <<"t", "r", "i", "v", "i", "a", " ", "a", "n", "s", "w", "e", "r", " ", "A">>,
      <<" ", "T", "R", "I", "V", "I", "A", " ", "A", "N", "S", "W", "E", "R", " ", "b">>,
      <<"t", "r", "i", "v", "i", "a", " ", "a", "n", "s", "w", "e", "r", " ", "c">>,
      <<"t", "r", "i", "v", "i", "a", " ", "a", "n", "s", "w", "e", "r", " ", "d">>,
      <<"t", "r", "i", "v", "i", "a", " ", "a", "n", "s", "w", "e", "r", " ",
        "a", "p", "p", "l", "e">> }

VARIABLES
    trivia_sessions,  \* session id -> reference to its session dict
    heap,             \* reference -> the dict {index, score}
    tasks,            \* bag of the frames of the trivia calls in flight
    prev,             \* the trivia call that returned before the latest one
    last,             \* the trivia call that returned latest
    game,             \* the commands of the game in progress, "trivia start" first
    jf,               \* the frame of the latest job_finder call
    fetch,            \* the frame of the latest Fetch.fetch_url call
    search            \* the frame of the latest Fetch.google_search_links call

trivia_vars == <<trivia_sessions, heap, tasks, prev, last, game>>
net_vars == <<jf, fetch, search>>
vars == <<trivia_sessions, heap, tasks, prev, last, game, jf, fetch, search>>


---------------------------------------------------------------------------
(* The trivia handler, statement by statement.  A machine m is the shared  *)
(* state the handler sees (sessions: the mapping, heap: the dicts, held:   *)
(* the references other frames hold) and f, the frame of this call.        *)

NoReply == [kind |-> "none", result |-> "", correct |-> "", question |-> -1, score |-> -1]

\* The locals of one call.  raw keeps the command as it came; reads (the
\* indices of TRIVIA_QUESTIONS read), pre (the mapping when the call began to
\* run) and overlap (another call returned while this one was in flight) are
\* kept for the record of the call.
Frame(raw) ==
    [ pc |-> "L276", raw |-> raw, command |-> raw, group |-> <<>>,
      user_answer |-> "", session |-> 0, idx |-> -1, correct_answer |-> "",
      result |-> "", reply |-> NoReply, reads |-> {}, pre |-> <<>>,
      overlap |-> FALSE ]

\* The mapping as a caller could observe it: session id -> {index, score}.
View(sessions, hp) == [s \in DOMAIN sessions |-> hp[sessions[s]]]

Return(m, reply) == [m EXCEPT !.f.pc = "ret", !.f.reply = reply]

Raise(m, error) == Return(m, [NoReply EXCEPT !.kind = error])

\* A reference no live object has: the dict literal of line 279 is a new object.
NewRef(m) ==
    LET used == m.held \cup {m.sessions[s] : s \in DOMAIN m.sessions \ {session_id}}
    IN  Min({r \in 1..(Cardinality(used) + 1) : r \notin used})

\* The dict literal of line 279.
FreshSession == [index |-> 0, score |-> 0]

\* The test of line 286, as "session_id in trivia_sessions".
SessionAssumed(sessions, sid) == TRUE
SessionExists(sessions, sid) == sid \in DOMAIN sessions

\* The test of line 294.
IsCorrectAsMatched(user_answer, correct_answer) ==
    lower(<<user_answer>>)[1] = correct_answer
IsCorrect(user_answer, correct_answer) == user_answer = correct_answer

\* The test of line 301.
GameOverOffByOne(index) == index > NumQuestions
GameOver(index) == index >= NumQuestions

\* TRIVIA_QUESTIONS[i] for a Python index i (negative indices count from the end).
InRange(i) == i \in (-NumQuestions)..(NumQuestions - 1)
Question(i) == TRIVIA_QUESTIONS[(IF i < 0 THEN i + NumQuestions ELSE i) + 1]

\* line 276, and the test of line 278
StepParse(m) ==
    LET command == lower(strip(m.f.command))
    IN  [m EXCEPT !.f.command = command,
                  !.f.pc = IF command = TRIVIA_START THEN "L279" ELSE "L284"]

\* lines 279-282: "trivia start"
StepStartKeepsGame(m) ==
    IF session_id \in DOMAIN m.sessions
    THEN Return([m EXCEPT !.f.reads = m.f.reads \cup {0}],
                [NoReply EXCEPT !.kind = "Started", !.question = 0])
    ELSE LET r == NewRef(m)
         IN  Return([m EXCEPT
                       !.sessions = [s \in DOMAIN m.sessions \cup {session_id} |-> r],
                       !.heap = [o \in DOMAIN m.heap \cup {r} |->
                                    IF o = r THEN FreshSession ELSE m.heap[o]],
                       !.f.reads = m.f.reads \cup {0}],
                    [NoReply EXCEPT !.kind = "Started", !.question = 0])
StepStart(m) ==
    LET r == NewRef(m)
        stored == [m EXCEPT
            !.sessions = [s \in DOMAIN m.sessions \cup {session_id} |->
                             IF s = session_id THEN r ELSE m.sessions[s]],
            !.heap = [o \in DOMAIN m.heap \cup {r} |->
                             IF o = r THEN FreshSession ELSE m.heap[o]],
            !.f.reads = m.f.reads \cup {0}]
    IN  Return(stored, [NoReply EXCEPT !.kind = "Started", !.question = 0])

\* lines 284-285, and line 310 when the pattern does not match
StepMatch(m) ==
    LET match == re_match(m.f.command)
    IN  IF match # <<>>
        THEN [m EXCEPT !.f.group = match, !.f.pc = "L286"]
        ELSE Return(m, [NoReply EXCEPT !.kind = "Invalid"])

\* lines 286-287
StepCheck(m) ==
    IF ~SessionExists(m.sessions, session_id)
    THEN Return(m, [NoReply EXCEPT !.kind = "NoSession"])
    ELSE [m EXCEPT !.f.pc = "L289"]

\* lines 289-292
StepLookup(m) ==
    IF session_id \notin DOMAIN m.sessions THEN Raise(m, "KeyError")
    ELSE
    LET session == m.sessions[session_id]
        idx == m.heap[session].index
        n == [m EXCEPT !.f.user_answer = upper(m.f.group)[1],
                       !.f.session = session,
                       !.f.idx = idx,
                       !.f.reads = m.f.reads \cup {idx}]
    IN  IF ~InRange(idx) THEN Raise(n, "IndexError")
        ELSE [n EXCEPT !.f.correct_answer = Question(idx).answer, !.f.pc = "L294"]

\* lines 294-298
StepGrade(m) ==
    IF IsCorrect(m.f.user_answer, m.f.correct_answer)
    THEN [m EXCEPT !.heap[m.f.session].score = @ + 1,
                   !.f.result = "Correct", !.f.pc = "L300"]
    ELSE [m EXCEPT !.f.result = "Wrong", !.f.pc = "L300"]

\* line 300
StepAdvance(m) ==
    [m EXCEPT !.heap[m.f.session].index = @ + 1, !.f.pc = "L301"]

\* lines 301-308
StepFinish(m) ==
    LET session == m.heap[m.f.session]
        graded == [NoReply EXCEPT !.result = m.f.result,
                                  !.correct = m.f.correct_answer]
    IN  IF GameOver(session.index)
        THEN IF session_id \notin DOMAIN m.sessions THEN Raise(m, "KeyError")
             ELSE Return([m EXCEPT !.sessions =
                                     [s \in DOMAIN m.sessions \ {session_id} |-> m.sessions[s]]],
                         [graded EXCEPT !.kind = "GameOver", !.score = session.score])
        ELSE LET n == [m EXCEPT !.f.reads = m.f.reads \cup {session.index}]
             IN  IF ~InRange(session.index) THEN Raise(n, "IndexError")
                 ELSE Return(n, [graded EXCEPT !.kind = "Next",
                                               !.question = session.index])

Step(m) ==
    CASE m.f.pc = "L276" -> StepParse(m)
      [] m.f.pc = "L279" -> StepStart(m)
      [] m.f.pc = "L284" -> StepMatch(m)
      [] m.f.pc = "L286" -> StepCheck(m)
      [] m.f.pc = "L289" -> StepLookup(m)
      [] m.f.pc = "L294" -> StepGrade(m)
      [] m.f.pc = "L300" -> StepAdvance(m)
      [] m.f.pc = "L301" -> StepFinish(m)

\* The statements of the handler at which the coroutine gives up the event
\* loop: an "async def" body suspends only at an await, and lines 266-310
\* hold none.
AwaitBeforeAdvance == {"L300"}
AwaitPoints == {}

\* The handler from its current statement to its return, nothing else running.
RECURSIVE RunToReturn(_)
RunToReturn(m) ==
    CHOOSE r \in {IF n.f.pc = "ret" THEN n ELSE RunToReturn(n) : n \in {Step(m)}} : TRUE

\* One turn of the event loop on a frame: from its current statement to its
\* return or to its next suspension.
RECURSIVE RunToSuspend(_)
RunToSuspend(m) ==
    CHOOSE r \in {IF n.f.pc = "ret" \/ n.f.pc \in AwaitPoints THEN n ELSE RunToSuspend(n) :
                     n \in {Step(m)}} : TRUE


---------------------------------------------------------------------------
(* The text constants of class Fetch and of the job_finder tool.  An emoji  *)
(* is one element, named by its code point.                                 *)

\* line 150-151
DESCRIPTION_HEAD ==
    <<"U+1F4DD", " ", "*", "*", "J", "o", "b", " ", "D", "e", "s", "c", "r", "i",
      "p", "t", "i", "o", "n", " ", "A", "n", "a", "l", "y", "s", "i", "s",
      "*", "*", "\n", "\n", "-", "-", "-", "\n">>

\* line 151-152
DESCRIPTION_GOAL ==
    <<"\n", "-", "-", "-", "\n", "\n", "U", "s", "e", "r", " ", "G", "o", "a",
      "l", ":", " ", "*", "*">>

\* line 152-153
DESCRIPTION_TAIL ==
    <<"*", "*", "\n", "\n", "U+1F4A1", " ", "S", "u", "g", "g", "e", "s", "t", "i",
      "o", "n", "s", ":", "\n", "-", " ", "T", "a", "i", "l", "o", "r", " ",
      "y", "o", "u", "r", " ", "r", "e", "s", "u", "m", "e", ".", "\n", "-",
      " ", "E", "v", "a", "l", "u", "a", "t", "e", " ", "s", "k", "i", "l",
      "l", " ", "m", "a", "t", "c", "h", ".", "\n", "-", " ", "C", "o", "n",
      "s", "i", "d", "e", "r", " ", "a", "p", "p", "l", "y", "i", "n", "g",
      " ", "i", "f", " ", "r", "e", "l", "e", "v", "a", "n", "t", ".">>

\* line 159
FETCHED_HEAD ==
    <<"U+1F517", " ", "*", "*", "F", "e", "t", "c", "h", "e", "d", " ", "J", "o",
      "b", " ", "P", "o", "s", "t", "i", "n", "g", " ", "f", "r", "o", "m",
      " ", "U", "R", "L", "*", "*", ":", " ">>

\* line 159-160
FETCHED_RULE ==
    <<"\n", "\n", "-", "-", "-", "\n">>

\* line 160-161
FETCHED_GOAL ==
    <<"\n", "-", "-", "-", "\n", "\n", "U", "s", "e", "r", " ", "G", "o", "a",
      "l", ":", " ", "*", "*">>

\* line 161
FETCHED_TAIL ==
    <<"*", "*">>

\* line 167
SEARCH_HEAD ==
    <<"U+1F50D", " ", "*", "*", "S", "e", "a", "r", "c", "h", " ", "R", "e", "s",
      "u", "l", "t", "s", " ", "f", "o", "r", "*", "*", ":", " ", "_">>

\* line 167
SEARCH_RULE ==
    <<"_", "\n", "\n">>

\* line 168
BULLET ==
    <<"-", " ">>

\* line 168
NEWLINE ==
    <<"\n">>

\* line 83
NOTE_HEAD ==
    <<"C", "o", "n", "t", "e", "n", "t", " ", "t", "y", "p", "e", " ">>

\* line 83
NOTE_TAIL ==
    <<" ", "c", "a", "n", "n", "o", "t", " ", "b", "e", " ", "s", "i", "m",
      "p", "l", "i", "f", "i", "e", "d", " ", "t", "o", " ", "m", "a", "r",
      "k", "d", "o", "w", "n", ",", " ", "b", "u", "t", " ", "h", "e", "r",
      "e", " ", "i", "s", " ", "t", "h", "e", " ", "r", "a", "w", " ", "c",
      "o", "n", "t", "e", "n", "t", ":", "\n">>

\* line 91
SIMPLIFY_FAILED ==
    <<"<", "e", "r", "r", "o", "r", ">", "P", "a", "g", "e", " ", "f", "a",
      "i", "l", "e", "d", " ", "t", "o", " ", "b", "e", " ", "s", "i", "m",
      "p", "l", "i", "f", "i", "e", "d", " ", "f", "r", "o", "m", " ", "H",
      "T", "M", "L", "<", "/", "e", "r", "r", "o", "r", ">">>

\* line 107
SEARCH_FAILED ==
    <<"<", "e", "r", "r", "o", "r", ">", "F", "a", "i", "l", "e", "d", " ",
      "t", "o", " ", "p", "e", "r", "f", "o", "r", "m", " ", "s", "e", "a",
      "r", "c", "h", ".", "<", "/", "e", "r", "r", "o", "r", ">">>

\* line 118
NO_RESULTS ==
    <<"<", "e", "r", "r", "o", "r", ">", "N", "o", " ", "r", "e", "s", "u",
      "l", "t", "s", " ", "f", "o", "u", "n", "d", ".", "<", "/", "e", "r",
      "r", "o", "r", ">">>

\* line 101
DDG_URL ==
    <<"h", "t", "t", "p", "s", ":", "/", "/", "h", "t", "m", "l", ".", "d",
      "u", "c", "k", "d", "u", "c", "k", "g", "o", ".", "c", "o", "m", "/",
      "h", "t", "m", "l", "/", "?", "q", "=">>

\* line 76
TEXT_HTML ==
    <<"t", "e", "x", "t", "/", "h", "t", "m", "l">>

\* line 113
HTTP ==
    <<"h", "t", "t", "p">>

\* line 164
LOOK_FOR ==
    <<"l", "o", "o", "k", " ", "f", "o", "r">>

\* line 164
FIND ==
    <<"f", "i", "n", "d">>

---------------------------------------------------------------------------
(* Optional values and the remaining str methods *)

\* An optional argument or header: None, or a value.
None == [some |-> FALSE, v |-> <<>>]
Some(v) == [some |-> TRUE, v |-> v]

\* Python's truth value of a  str | None : None and "" are false.
Truthy(x) == x.some /\ x.v # <<>>

\* sep.join(parts)
RECURSIVE join(_, _)
join(sep, parts) ==
    IF parts = <<>> THEN <<>>
    ELSE IF Len(parts) = 1 THEN parts[1]
    ELSE parts[1] \o sep \o join(sep, Tail(parts))

\* str.replace(old, new) for one-character old and new
replace(s, old, new) == [i \in 1..Len(s) |-> IF s[i] = old THEN new ELSE s[i]]

---------------------------------------------------------------------------
(* Fetch.fetch_url and Fetch.extract_content_from_html *)

PAGE_JOB ==
    <<"<", "h", "1", ">", "R", "u", "s", "t", " ", "d", "e", "v", "<", "/",
      "h", "1", ">">>
PAGE_JOB_MARKDOWN ==
    <<"#", " ", "R", "u", "s", "t", " ", "d", "e", "v">>
PAGE_BLANK ==
    <<"<", "b", "r", ">">>
PAGE_JSON ==
    <<"{", "\"", "j", "o", "b", "\"", ":", " ", "1", "}">>

\* The response bodies the servers send.
Bodies == {PAGE_JOB, PAGE_BLANK, PAGE_JSON}

\* readabilipy's simple_json_from_html_string(html, use_readability=True):
\* the "content" of the readable block it finds, None when it finds none.
simple_json_from_html_string(html) ==
    [content |-> IF html = PAGE_JOB THEN Some(PAGE_JOB) ELSE None]

\* markdownify.markdownify(content, heading_style=ATX)
markdownify(content) == IF content = PAGE_JOB THEN PAGE_JOB_MARKDOWN ELSE content

extract_content_from_html(html) ==
    LET ret == simple_json_from_html_string(html)
    IN  IF ~Truthy(ret.content) THEN SIMPLIFY_FAILED
        ELSE markdownify(ret.content.v)

NoResponse ==
    [failed |-> FALSE, status_code |-> 0, content_type |-> None, text |-> <<>>,
     anchors |-> <<>>]

\* client.get raised an httpx.HTTPError: no response arrived.
TransportError == [NoResponse EXCEPT !.failed = TRUE]

ContentTypes ==
    { None,
      Some(<<"t", "e", "x", "t", "/", "h", "t", "m", "l", ";", " ", "c", "h", "a",
              "r", "s", "e", "t", "=", "u", "t", "f", "-", "8">>),
      Some(<<"a", "p", "p", "l", "i", "c", "a", "t", "i", "o", "n", "/", "j", "s",
              "o", "n">>),
      Some(<<"T", "E", "X", "T", "/", "H", "T", "M", "L">>) }

FetchResponses ==
    {TransportError} \cup
    { [NoResponse EXCEPT !.status_code = code, !.content_type = ct, !.text = body] :
        code \in {200, 399, 400, 500}, ct \in ContentTypes, body \in Bodies }

NoFetch ==
    [pc |-> "idle", url |-> <<>>, force_raw |-> FALSE, gets |-> 0,
     response |-> NoResponse, content |-> <<>>, note |-> <<>>, error |-> ""]

\* The test of line 70.
IsErrorStatus(status_code) == status_code >= 400

\* The test of line 78.
SimplifiesEvenIfRaw(is_page_html, force_raw) == is_page_html
Simplifies(is_page_html, force_raw) == is_page_html /\ ~force_raw

\* lines 59-66: fetch_url up to its await, the GET sent.
fetch_url_get(url, force_raw) ==
    [NoFetch EXCEPT !.pc = "L61", !.url = url, !.force_raw = force_raw, !.gets = 1]

\* lines 67-84: fetch_url from the outcome of the GET to its return or raise.
fetch_url_got(fr, response) ==
    LET got == [fr EXCEPT !.response = response]
        page_raw == response.text
        content_type == IF response.content_type.some THEN response.content_type.v
                        ELSE <<>>
        is_page_html == Contains(content_type, TEXT_HTML)
    IN  IF response.failed \/ IsErrorStatus(response.status_code)
        THEN [got EXCEPT !.pc = "raise", !.error = "INTERNAL_ERROR"]
        ELSE IF Simplifies(is_page_html, fr.force_raw)
        THEN [got EXCEPT !.pc = "ret", !.content = extract_content_from_html(page_raw)]
        ELSE [got EXCEPT !.pc = "ret", !.content = page_raw,
                         !.note = NOTE_HEAD \o content_type \o NOTE_TAIL]

---------------------------------------------------------------------------
(* Fetch.google_search_links *)

\* The largest page and the largest num_results the callers try.
MaxAnchors == 3
MaxResults == 3

\* num_results when the caller gives none.
DefaultNumResults == 5

\* The <a> elements a result page may hold.
AnchorKinds ==
    { [class |-> "result__a", href |-> Some(<<"h", "t", "t", "p", "s", ":", "/", "/", "a", ".", "e", "x", "a", "m",
          "p", "l", "e", "/", "j", "o", "b">>)],
      [class |-> "result__a", href |-> Some(<<"h", "t", "t", "p", ":", "/", "/", "b", ".", "e", "x", "a", "m", "p",
          "l", "e">>)],
      [class |-> "result__a", href |-> Some(<<"/", "l", "o", "c", "a", "l">>)],
      [class |-> "nav", href |-> Some(<<"h", "t", "t", "p", "s", ":", "/", "/", "a", "d", ".", "e", "x", "a",
          "m", "p", "l", "e">>)],
      [class |-> "result__a", href |-> None] }

Pages == UNION {[1..n -> AnchorKinds] : n \in 0..MaxAnchors}

SearchResponses ==
    {TransportError} \cup
    { [NoResponse EXCEPT !.status_code = code, !.anchors = page] :
        code \in {200, 202, 404}, page \in Pages }

NoSearch ==
    [pc |-> "idle", query |-> <<>>, num_results |-> 0, ddg_url |-> <<>>, gets |-> 0,
     response |-> NoResponse, links |-> <<>>, error |-> ""]

\* soup.find_all("a", class_="result__a", href=True)
IsResult(a) == a.class = "result__a" /\ a.href.some
find_all(anchors) == SelectSeq(anchors, IsResult)

\* The test of line 115.
FullOnePast(links, num_results) == Len(links) > num_results
Full(links, num_results) == Len(links) >= num_results

\* lines 111-116: the loop over the result anchors
RECURSIVE Collect(_, _, _)
Collect(anchors, links, num_results) ==
    IF anchors = <<>> THEN links
    ELSE LET href == Head(anchors).href.v
             added == IF Contains(href, HTTP) THEN Append(links, href) ELSE links
         IN  IF Full(added, num_results) THEN added
             ELSE Collect(Tail(anchors), added, num_results)

\* lines 101-105: google_search_links up to its await, the GET sent.
google_search_links_get(query, num_results) ==
    [NoSearch EXCEPT !.pc = "L105", !.query = query, !.num_results = num_results,
                     !.ddg_url = DDG_URL \o replace(query, " ", "+"), !.gets = 1]

\* lines 105-118: google_search_links from the outcome of the GET on.  An
\* httpx error is not caught here: it leaves the function as it is.
google_search_links_got(sr, response) ==
    LET got == [sr EXCEPT !.response = response]
        links == Collect(find_all(response.anchors), <<>>, sr.num_results)
    IN  IF response.failed THEN [got EXCEPT !.pc = "raise", !.error = "HTTPError"]
        ELSE IF response.status_code # 200
        THEN [got EXCEPT !.pc = "ret", !.links = <<SEARCH_FAILED>>]
        ELSE [got EXCEPT !.pc = "ret",
                         !.links = IF links # <<>> THEN links ELSE <<NO_RESULTS>>]

---------------------------------------------------------------------------
(* The job_finder tool *)

UserGoals ==
    { <<"f", "i", "n", "d", " ", "r", "e", "m", "o", "t", "e", " ", "j", "o",
        "b", "s">>,
      <<"L", "o", "o", "k", " ", "F", "o", "r", " ", "G", "o">>,
      <<"F", "I", "N", "D">>,
      <<"f", "i", "n", " ", "d", " ", "l", "o", "o", "k", "f", "o", "r">> }

JobDescriptions ==
    { None, Some(<<>>),
      Some(<<"R", "u", "s", "t", " ", "d", "e", "v">>),
      Some(<<" ", "R", "u", "s", "t", " ", "d", "e", "v", " ">>),
      Some(<<" ", " ">>) }

\* str(job_url) of the URLs the callers give (already in normal form).
JobUrls ==
    { None,
      Some(<<"h", "t", "t", "p", "s", ":", "/", "/", "j", "o", "b", "s", ".", "e",
             "x", "a", "m", "p", "l", "e", "/", "1">>) }

NoJob ==
    [pc |-> "idle", user_goal |-> <<>>, job_description |-> None, job_url |-> None,
     raw |-> FALSE, text |-> <<>>, error |-> ""]

\* The test of line 164.
IsSearchGoalAsTyped(user_goal) ==
    Contains(user_goal, LOOK_FOR) \/ Contains(user_goal, FIND)
IsSearchGoal(user_goal) ==
    Contains(lower(user_goal), LOOK_FOR) \/ Contains(lower(user_goal), FIND)

\* The tests of lines 148, 156 and 164, in that order; line 171 otherwise.
BranchUrlFirst(job_description, job_url, user_goal) ==
    IF job_url.some THEN "fetch"
    ELSE IF Truthy(job_description) THEN "describe"
    ELSE IF IsSearchGoal(user_goal) THEN "search"
    ELSE "invalid"
Branch(job_description, job_url, user_goal) ==
    IF Truthy(job_description) THEN "describe"
    ELSE IF job_url.some THEN "fetch"
    ELSE IF IsSearchGoal(user_goal) THEN "search"
    ELSE "invalid"

\* lines 149-154
Described(call) ==
    [call EXCEPT !.pc = "ret",
                 !.text = DESCRIPTION_HEAD \o strip(call.job_description.v)
                          \o DESCRIPTION_GOAL \o call.user_goal \o DESCRIPTION_TAIL]

\* lines 157-162, once fetch_url is over: its error goes up unchanged
Fetched(call, fr) ==
    IF fr.pc = "raise" THEN [call EXCEPT !.pc = "raise", !.error = fr.error]
    ELSE [call EXCEPT !.pc = "ret",
                      !.text = FETCHED_HEAD \o call.job_url.v \o FETCHED_RULE
                               \o strip(fr.content) \o FETCHED_GOAL
                               \o call.user_goal \o FETCHED_TAIL]

Bulleted(links) == [i \in 1..Len(links) |-> BULLET \o links[i]]

\* lines 165-169, once google_search_links is over
Searched(call, sr) ==
    IF sr.pc = "raise" THEN [call EXCEPT !.pc = "raise", !.error = sr.error]
    ELSE [call EXCEPT !.pc = "ret",
                      !.text = SEARCH_HEAD \o call.user_goal \o SEARCH_RULE
                               \o join(NEWLINE, Bulleted(sr.links))]

NetIdle == jf = NoJob /\ fetch = NoFetch /\ search = NoSearch

\* A caller invokes job_finder; it runs to its return, its raise or its await.
JobFinder(user_goal, job_description, job_url, raw) ==
    LET call == [NoJob EXCEPT !.user_goal = user_goal,
                              !.job_description = job_description,
                              !.job_url = job_url, !.raw = raw]
        branch == Branch(job_description, job_url, user_goal)
    IN  /\ NetIdle
        /\ jf' = IF branch = "describe" THEN Described(call)
                 ELSE IF branch = "fetch" THEN [call EXCEPT !.pc = "L157"]
                 ELSE IF branch = "search" THEN [call EXCEPT !.pc = "L165"]
                 ELSE [call EXCEPT !.pc = "raise", !.error = "INVALID_PARAMS"]
        /\ fetch' = IF branch = "fetch" THEN fetch_url_get(job_url.v, raw) ELSE NoFetch
        /\ search' = IF branch = "search"
                     THEN google_search_links_get(user_goal, DefaultNumResults)
                     ELSE NoSearch
        /\ UNCHANGED trivia_vars

\* The GET of fetch_url ends; fetch_url and then job_finder run to their end.
FetchResponds(response) ==
    /\ fetch.pc = "L61"
    /\ \E fr \in {fetch_url_got(fetch, response)} :
          /\ fetch' = fr
          /\ jf' = Fetched(jf, fr)
    /\ UNCHANGED <<search, trivia_vars>>

\* Some code calls Fetch.google_search_links itself, with its own num_results.
SearchLinks(query, num_results) ==
    /\ NetIdle
    /\ search' = google_search_links_get(query, num_results)
    /\ jf' = NoJob
    /\ fetch' = NoFetch
    /\ UNCHANGED trivia_vars

\* The GET of google_search_links ends; the function runs to its end, and
\* job_finder after it when the call came from there.
SearchResponds(response) ==
    /\ search.pc = "L105"
    /\ \E sr \in {google_search_links_got(search, response)} :
          /\ search' = sr
          /\ jf' = IF jf.pc = "L165" THEN Searched(jf, sr) ELSE jf
    /\ UNCHANGED <<fetch, trivia_vars>>

\* The outermost call is over and its result or error goes to the caller:
\* the frames are dropped.
Deliver ==
    /\ \/ jf.pc \in {"ret", "raise"}
       \/ jf.pc = "idle" /\ search.pc \in {"ret", "raise"}
    /\ jf' = NoJob
    /\ fetch' = NoFetch
    /\ search' = NoSearch
    /\ UNCHANGED trivia_vars

---------------------------------------------------------------------------
(* The trivia tool under the RPC framework's event loop *)

\* A command that is exactly "trivia answer <A|B|C>" once stripped and lowered.
AnswerCommands == {TRIVIA_ANSWER \o <<letter>> : letter \in {"a", "b", "c"}}

Entry(m) ==
    [ command |-> m.f.raw, reply |-> m.f.reply, pre |-> m.f.pre,
      post |-> View(m.sessions, m.heap), reads |-> m.f.reads,
      overlap |-> m.f.overlap ]

NoEntry ==
    [ command |-> <<>>, reply |-> NoReply, pre |-> <<>>, post |-> <<>>,
      reads |-> {}, overlap |-> FALSE ]

\* The game being played, as the callers drove it: the latest "trivia start"
\* and the answers that followed it, while nothing else came in between.
Played(sofar, command) ==
    IF command = TRIVIA_START THEN <<command>>
    ELSE IF sofar # <<>> /\ Len(sofar) <= NumQuestions /\ command \in AnswerCommands
         THEN Append(sofar, command)
         ELSE <<>>

StillInFlight(g) == [g EXCEPT !.overlap = TRUE]

\* The dicts something still refers to (the others are garbage).
Live(sessions, frames) ==
    {sessions[s] : s \in DOMAIN sessions} \cup ({g.session : g \in frames} \ {0})

TriviaInit ==
    /\ trivia_sessions = <<>>
    /\ heap = <<>>
    /\ tasks = EmptyBag
    /\ prev = NoEntry
    /\ last = NoEntry
    /\ game = <<>>
    /\ NetIdle

\* A caller invokes the tool: the framework creates the handler's coroutine.
Dispatch(c) ==
    /\ BagCardinality(tasks) < MaxInflight
    /\ tasks' = tasks (+) SetToBag({Frame(c)})
    /\ UNCHANGED <<trivia_sessions, heap, prev, last, game, net_vars>>

\* What one turn of the event loop on frame f leaves behind, n being the
\* machine when the coroutine returned or suspended.
Resume(f, n) ==
    LET returned == n.f.pc = "ret"
        others == tasks (-) SetToBag({f})
        rest == IF returned THEN BagOfAll(StillInFlight, others)
                ELSE others (+) SetToBag({n.f})
        live == Live(n.sessions, BagToSet(rest))
    IN  /\ trivia_sessions' = n.sessions
        /\ heap' = [o \in DOMAIN n.heap \cap live |-> n.heap[o]]
        /\ tasks' = rest
        /\ prev' = IF returned THEN last ELSE prev
        /\ last' = IF returned THEN Entry(n) ELSE last
        /\ game' = IF returned THEN Played(game, n.f.command) ELSE game
        /\ UNCHANGED net_vars

\* The event loop runs one coroutine until it returns or suspends.
Run(f) ==
    LET m == [ sessions |-> trivia_sessions, heap |-> heap,
               held |-> {g.session : g \in BagToSet(tasks (-) SetToBag({f}))} \ {0},
               f |-> IF f.pc = "L276"
                     THEN [f EXCEPT !.pre = View(trivia_sessions, heap)]
                     ELSE f ]
    IN  \E n \in {RunToSuspend(m)} : Resume(f, n)

TriviaNext ==
    \/ \E c \in Commands : Dispatch(c)
    \/ \E f \in BagToSet(tasks) : Run(f)

Spec == TriviaInit /\ [][TriviaNext]_vars

NetNext ==
    \/ \E user_goal \in UserGoals, job_description \in JobDescriptions,
          job_url \in JobUrls, raw \in BOOLEAN :
            JobFinder(user_goal, job_description, job_url, raw)
    \/ \E response \in FetchResponses : FetchResponds(response)
    \/ \E query \in UserGoals, num_results \in (-1)..MaxResults :
            SearchLinks(query, num_results)
    \/ \E response \in SearchResponses : SearchResponds(response)
    \/ Deliver

\* The tools that use the network, the trivia tool at rest.
NetSpec == TriviaInit /\ [][NetNext]_vars


---------------------------------------------------------------------------
(* The trivia tool: properties, checked under Spec *)

\* A command as line 276 leaves it.
Normal(command) == lower(strip(command))

\* The letter a caller gave in a "trivia answer <letter>" command.
Letter(command) == upper(<<command[Len(command)]>>)[1]

\* The correct answers, as the property of the game gives them.
C1_Correct == <<"A", "A", "B">>

\* C1: "trivia start" and then three "trivia answer <A|B|C>" commands, nothing
\* else in between, end the game on the third answer: its reply is the Game
\* Over message with score k, the number of answers that equal the correct
\* ones (A, A, B), and the session is gone from the mapping.
C1_ThirdAnswerEndsGame ==
    Len(game) = Len(C1_Correct) + 1 =>
        /\ last.reply.kind = "GameOver"
        /\ last.reply.score =
              Cardinality({i \in 1..Len(C1_Correct) : Letter(game[i + 1]) = C1_Correct[i]})
        /\ session_id \notin DOMAIN last.post
        /\ session_id \notin DOMAIN trivia_sessions

\* start, answer A, answer B, answer A has just been played: 1/3.
C1_Witness ==
    /\ game = <<TRIVIA_START, TRIVIA_ANSWER \o <<"a">>, TRIVIA_ANSWER \o <<"b">>,
                TRIVIA_ANSWER \o <<"a">> >>
    /\ last.reply.kind = "GameOver"
    /\ last.reply.score = 1

\* C2: the mapping holds sessions under known ids only, one per id; a stored
\* index is an index of the question list or its length, a stored score is
\* not negative; and no call reads a question outside the list.
C2_SessionInRange ==
    /\ DOMAIN trivia_sessions \subseteq SessionIds
    /\ \A s \in DOMAIN trivia_sessions :
          /\ trivia_sessions[s] \in DOMAIN heap
          /\ heap[trivia_sessions[s]].index \in 0..NumQuestions
          /\ heap[trivia_sessions[s]].score \in Nat
    /\ last.reads \subseteq 0..(NumQuestions - 1)
    /\ last.reply.kind \notin {"IndexError", "KeyError"}

\* An answer has just moved the session to the last question.
C2_Witness ==
    /\ session_id \in DOMAIN trivia_sessions
    /\ heap[trivia_sessions[session_id]].index = NumQuestions - 1
    /\ last.reply.kind = "Next"
    /\ (NumQuestions - 1) \in last.reads

\* The handler on its own, from the mapping a caller sees to its reply.
Alone(view, raw) ==
    LET ref == CHOOSE r \in [DOMAIN view -> 1..Cardinality(DOMAIN view)] :
                   \A a, b \in DOMAIN view : r[a] = r[b] => a = b
        m == [ sessions |-> ref,
               heap |-> [o \in {ref[s] : s \in DOMAIN view} |->
                            view[CHOOSE s \in DOMAIN view : ref[s] = o]],
               held |-> {},
               f |-> Frame(raw) ]
    IN  CHOOSE r \in {[reply |-> n.f.reply, post |-> View(n.sessions, n.heap)] :
                         n \in {RunToReturn(m)}} : TRUE

\* Two commands one after the other, c1 then c2: the replies to c1 and to c2,
\* and the mapping at the end (a set of one outcome).
InOrder(view, c1, c2) ==
    UNION { { [first |-> a.reply, second |-> b.reply, final |-> b.post] :
                b \in {Alone(a.post, c2)} } :
            a \in {Alone(view, c1)} }

\* The same with c2 run before c1.
Swapped(view, c1, c2) ==
    UNION { { [first |-> a.reply, second |-> b.reply, final |-> a.post] :
                a \in {Alone(b.post, c1)} } :
            b \in {Alone(view, c2)} }

\* What the two latest calls did.
Observed == [first |-> prev.reply, second |-> last.reply, final |-> last.post]

\* The latest call was in flight while the one before it was.
Concurrent == last.overlap /\ prev # NoEntry

\* C3 as the specification states it: two commands in flight together race on
\* the mapping, their replies or the mapping they leave being those of neither
\* sequential order of the two.
C3_CommandsRace ==
    Concurrent =>
        Observed \notin InOrder(prev.pre, prev.command, last.command)
                         \cup Swapped(prev.pre, prev.command, last.command)

\* C3 as the code has it: the handler holds no await, so the event loop runs
\* each call from its first statement to its return; two commands in flight
\* together leave the replies and the mapping of one of their two sequential
\* orders.
C3_CommandsSerialize ==
    Concurrent =>
        Observed \in InOrder(prev.pre, prev.command, last.command)
                      \cup Swapped(prev.pre, prev.command, last.command)

\* Two commands were in flight together, and their order matters.
C3_Witness ==
    /\ Concurrent
    /\ InOrder(prev.pre, prev.command, last.command)
         # Swapped(prev.pre, prev.command, last.command)
    /\ Normal(prev.command) \in AnswerCommands
    /\ Normal(last.command) \in AnswerCommands
    /\ session_id \in DOMAIN prev.pre

\* C4: "trivia answer <A|B|C>" with no session in the mapping returns the
\* "no session" message, raises nothing and leaves the mapping as it was.
C4_AnswerWithoutSession ==
    (Normal(last.command) \in AnswerCommands /\ session_id \notin DOMAIN last.pre) =>
        /\ last.reply.kind = "NoSession"
        /\ last.post = last.pre
        /\ session_id \notin DOMAIN last.post

\* An answer came after the game was over.
C4_Witness ==
    /\ prev.reply.kind = "GameOver"
    /\ Normal(last.command) \in AnswerCommands
    /\ last.reply.kind = "NoSession"

\* C5: an input that, stripped and lowered, is neither "trivia start" nor
\* "trivia answer " and one of a, b, c returns the "invalid command" message
\* and leaves the mapping as it was.
C5_OtherInputIsInvalid ==
    (last # NoEntry /\ Normal(last.command) \notin {TRIVIA_START} \cup AnswerCommands) =>
        /\ last.reply.kind = "Invalid"
        /\ last.post = last.pre

\* C6: "trivia start" leaves the session at index 0 and score 0, whatever was
\* there, and returns question 0.
C6_StartResets ==
    Normal(last.command) = TRIVIA_START =>
        /\ session_id \in DOMAIN last.post
        /\ last.post[session_id] = [index |-> 0, score |-> 0]
        /\ last.reply = [NoReply EXCEPT !.kind = "Started", !.question = 0]

\* A start came during a game with points already scored.
C6_Witness ==
    /\ Normal(last.command) = TRIVIA_START
    /\ session_id \in DOMAIN last.pre
    /\ last.pre[session_id].score > 0
    /\ last.pre[session_id].index > 0
    /\ last.post[session_id].score = 0

---------------------------------------------------------------------------
(* job_finder and class Fetch: properties, checked under NetSpec *)

\* C7 as the specification states it: a job description that is given comes
\* back verbatim in the formatted description, whatever the other arguments,
\* and no GET is sent.
C7_DescriptionVerbatim ==
    (jf.pc # "idle" /\ jf.job_description.some) =>
        /\ jf.pc = "ret"
        /\ Contains(jf.text, jf.job_description.v)
        /\ fetch.gets = 0
        /\ search.gets = 0

\* C7 as the code has it: a job description that is given and not empty comes
\* back, its leading and trailing whitespace removed, in the formatted
\* description, whatever the other arguments, and no GET is sent.
C7_DescriptionStripped ==
    (jf.pc # "idle" /\ jf.job_description.some /\ jf.job_description.v # <<>>) =>
        /\ jf.pc = "ret"
        /\ StartsWith(jf.text, DESCRIPTION_HEAD)
        /\ Contains(jf.text, strip(jf.job_description.v))
        /\ fetch.gets = 0 /\ fetch.pc = "idle"
        /\ search.gets = 0 /\ search.pc = "idle"

\* A description came with a URL and a goal that asks for a search.
C7_Witness ==
    /\ jf.pc = "ret"
    /\ jf.job_description.some
    /\ strip(jf.job_description.v) # jf.job_description.v
    /\ strip(jf.job_description.v) # <<>>
    /\ jf.job_url.some
    /\ Contains(jf.user_goal, FIND)

\* Whether a goal holds "look for" or "find" in some letter case.
C8_AsksForSearch(user_goal) ==
    \E i \in 1..Len(user_goal), w \in {LOOK_FOR, FIND} :
        /\ i + Len(w) - 1 <= Len(user_goal)
        /\ \A k \in 1..Len(w) :
              user_goal[i + k - 1] \in {w[k], Translate(w[k], ToUpper)}

\* C8: with no description and no URL, a goal that holds neither "look for"
\* nor "find" in any letter case makes job_finder fail with InvalidParameters
\* and no GET is sent; a goal that holds one of them takes the search path.
C8_GoalDecides ==
    (jf.pc # "idle" /\ ~Truthy(jf.job_description) /\ ~jf.job_url.some) =>
        IF C8_AsksForSearch(jf.user_goal)
        THEN /\ search.pc # "idle"
             /\ search.query = jf.user_goal
             /\ search.gets = 1
             /\ fetch.gets = 0
             /\ jf.error # "INVALID_PARAMS"
        ELSE /\ jf.pc = "raise"
             /\ jf.error = "INVALID_PARAMS"
             /\ fetch.gets = 0 /\ fetch.pc = "idle"
             /\ search.gets = 0 /\ search.pc = "idle"

\* job_finder has just refused a call with nothing to go on.
C8_Witness ==
    /\ jf.pc = "raise"
    /\ jf.error = "INVALID_PARAMS"
    /\ ~jf.job_description.some
    /\ ~jf.job_url.some
    /\ ~C8_AsksForSearch(jf.user_goal)

\* C9 as the specification states it: the list google_search_links returns
\* is no longer than num_results, and either each element holds "http" or the
\* list is the "no results" placeholder alone.
C9_LinksBounded ==
    search.pc = "ret" =>
        /\ Len(search.links) <= search.num_results
        /\ \/ \A i \in 1..Len(search.links) : Contains(search.links[i], HTTP)
           \/ search.links = <<NO_RESULTS>>

\* C9 as the code has it: for num_results of 1 or more the list is no longer
\* than num_results, and for num_results below 1 it has one element; either
\* each element holds "http", or the list is the "no results" placeholder
\* alone, or, after a status other than 200, the "search failed" one alone.
C9_LinksBoundedFromOne ==
    search.pc = "ret" =>
        /\ search.num_results >= 1 => Len(search.links) <= search.num_results
        /\ search.num_results < 1 => Len(search.links) = 1
        /\ \/ \A i \in 1..Len(search.links) : Contains(search.links[i], HTTP)
           \/ search.links = <<NO_RESULTS>>
           \/ search.links = <<SEARCH_FAILED>> /\ search.response.status_code # 200

\* A page held more links than asked for, and the list was cut.
C9_Witness ==
    /\ search.pc = "ret"
    /\ search.response.status_code = 200
    /\ Len(search.links) = search.num_results
    /\ search.num_results > 1
    /\ Cardinality({i \in 1..Len(search.response.anchors) :
                      /\ IsResult(search.response.anchors[i])
                      /\ Contains(search.response.anchors[i].href.v, HTTP)})
         > search.num_results

\* C10: fetch_url sends one GET; a transport error or a status of 400 or more
\* makes it raise InternalError with no body; otherwise a content type that
\* holds "text/html", force_raw being false, gives the simplifier's output
\* and an empty note; anything else gives the raw body and a note.
C10_FetchOutcome ==
    fetch.pc \in {"ret", "raise"} =>
        LET r == fetch.response
            header == IF r.content_type.some THEN r.content_type.v ELSE <<>>
        IN  /\ fetch.gets = 1
            /\ IF r.failed \/ r.status_code >= 400
               THEN /\ fetch.pc = "raise"
                    /\ fetch.error = "INTERNAL_ERROR"
                    /\ fetch.content = <<>>
               ELSE IF Contains(header, TEXT_HTML) /\ ~fetch.force_raw
               THEN /\ fetch.pc = "ret"
                    /\ fetch.content = extract_content_from_html(r.text)
                    /\ fetch.note = <<>>
               ELSE /\ fetch.pc = "ret"
                    /\ fetch.content = r.text
                    /\ fetch.note # <<>>

\* An HTML page came back to a call that asked for the raw content.
C10_Witness ==
    /\ fetch.pc = "ret"
    /\ fetch.force_raw
    /\ fetch.response.status_code = 399
    /\ Contains(fetch.response.content_type.v, TEXT_HTML)
    /\ fetch.content = PAGE_JOB
    /\ fetch.note # <<>>

=============================================================================
